---- MODULE Spec2Model ----
(***************************************************************************)
(* Model of ContextCompressionMiddleware (src/src/performance-profiler.ts, *)
(* lines 348-658): the resident collection `items`, the archive collection *)
(* `archivedItems`, and every public operation of the class.               *)
(*                                                                         *)
(* Representation                                                          *)
(*  - a priority p is held in hundredths: 90 is 0.9, 100 is 1.0, -50 is    *)
(*    -0.5;                                                                *)
(*  - a content string is held as its length in characters, the only thing *)
(*    the class reads from it when it packs;                               *)
(*  - a timestamp is the reading of a millisecond clock that never runs    *)
(*    backwards: two items added within the same millisecond get the same  *)
(*    timestamp;                                                           *)
(*  - compressionRatio is the pair <<compressedSize, originalSize>> of the *)
(*    division the code performs (<<1, 1>> for the literal 1).             *)
(*  - the identifier `ctx_n` is held as the number n;                      *)
(*  - `last` records the most recent call: its name, the fragment it acted *)
(*    on, what it returned, and the CompressionResult of the compaction it *)
(*    ran (NoResult when it ran none).                                     *)
(*                                                                         *)
(* TokenBudgetManager (src/src/token-budget-manager.ts) is modelled beside *)
(* it: `budgetConfig`, `used`, `alerts`, `enableAutoFallback`, and         *)
(* `called`, the most recent call on the manager and what it returned.     *)
(* Thresholds are held in hundredths like priorities. The two objects      *)
(* share nothing; each specification drives one and leaves the other as    *)
(* constructed.                                                            *)
(*                                                                         *)
(* AgentPerformanceProfiler (src/src/performance-profiler.ts, lines        *)
(* 24-332) is the third object: `agents` is its Map in insertion order,    *)
(* `events` its event list, `bottlenecks` its list of messages, each held  *)
(* as the values the message text is built from. It reads the same clock.  *)
(***************************************************************************)
EXTENDS Integers, Sequences, FiniteSets

\* ------------------------------------------------------------------ bounds
MaxItems == 2        \* addItem is called at most this many times
MaxClock == 1        \* the clock readings are 0..MaxClock
MaxUsed == 20        \* reserve and consume are called while used stays within this
MaxAlerts == 2       \* and while the alert list stays within this length
MaxEvents == 4       \* the profiler is called while its event list stays within this

\* inputs the operations are called with
Contents == {0, 3, 8}             \* content lengths: estimates 0, 1 and 2
Priorities == {-50, 90, 150}      \* -0.5, 0.9, 1.5
Sizes == {-1, 0, 1, 2}            \* capacities given to the constructor / setMaxSize
Instructions == {0, 8}            \* instructions text: empty, or 8 characters
Limits == {1, 5}                  \* summarizeArchived(maxItems); 5 is the default
Ids == 1..MaxItems                \* identifiers callers pass, issued or not
Budgets == {10, 16}               \* defaultBudget, and maxTokens given to updateConfig
Tokens == {0, 1, 3}               \* token counts given to the budget manager
Modes == {"chat", "single", "multi"}
ReservationIds == {1, 2}          \* the random part of a reservation id
ForeignIds == {0}                 \* a reservationId that is not of reserve's making
AgentIds == {"a", "b"}            \* agents the profiler is told about; agentName is agentId
TokensUsed == {0, 5}              \* tokensUsed given to recordEnd
ContextSizes == {0, 1}            \* contextSize given to recordContext
ContextLimits == {2}              \* contextLimit given to recordContext

VARIABLES maxSize, preserveInstructionsAtStart, instructionsContent,
          archiveThreshold, items, archivedItems, idCounter, clock, last,
          budgetConfig, used, alerts, enableAutoFallback, called,
          trackContextUtilization, agents, events, startTime, bottlenecks

contextVars == <<maxSize, preserveInstructionsAtStart, instructionsContent,
                 archiveThreshold, items, archivedItems, idCounter, clock, last>>

budgetVars == <<budgetConfig, used, alerts, enableAutoFallback, called>>

profilerVars == <<trackContextUtilization, agents, events, startTime, bottlenecks>>

\* the fields of the middleware, without the clock
contextFields == <<maxSize, preserveInstructionsAtStart, instructionsContent,
                   archiveThreshold, items, archivedItems, idCounter, last>>

vars == <<contextVars, budgetVars, profilerVars>>

config == <<preserveInstructionsAtStart, archiveThreshold>>

\* ------------------------------------------------------------ pure helpers

\* an estimate that multiplies where the code divides
EstimateTimesFour(content) == content * 4

\* an estimate of one unit a character
EstimateInCharacters(content) == content

\* Math.ceil(content.length / 4)
Estimate(content) == (content + 3) \div 4

\* this.archiveThreshold = options.archiveThreshold ?? 0.3
DefaultArchiveThreshold == 30

Min(a, b) == IF a < b THEN a ELSE b
Max(a, b) == IF a > b THEN a ELSE b
\* a clamp that forgets the lower end
ClampUpperOnly(priority) == Min(100, priority)

\* Math.max(0, Math.min(1, priority))
Clamp(priority) == Max(0, Min(100, priority))

\* a cutoff that counts 0.9 itself as critical
IsCriticalInclusive(item) == item.priority >= 90

\* item.priority > 0.9
IsCritical(item) == item.priority > 90

\* the priority addItem stores in the new item
AddedPriority(priority) == priority

IdsOf(s) == {s[i].id : i \in 1..Len(s)}

RECURSIVE SumSizes(_)
SumSizes(s) == IF s = <<>> THEN 0 ELSE Estimate(Head(s).content) + SumSizes(Tail(s))

\* getCurrentSize()
GetCurrentSize(its) == SumSizes(its)

\* Array.prototype.sort with a comparator: a stable sort. Element i lands after
\* every element that compares before it, and after the equal ones that precede it.
\* cmp[j][i] is the comparator's result for (s[j], s[i]).
StableSort(s, cmp) ==
  LET n == Len(s)
      rank(i) == Cardinality({j \in 1..n : \/ cmp[j][i] < 0
                                            \/ (cmp[j][i] = 0 /\ j < i)}) + 1
  IN [k \in 1..n |-> s[CHOOSE i \in 1..n : rank(i) = k]]

\* ByPriority with the operands swapped: ascending
ByPriorityAscending(a, b) == a.priority - b.priority

\* (a, b) => b.priority - a.priority
ByPriority(a, b) == b.priority - a.priority

\* ByRecency with the timestamps swapped: oldest first
ByRecencyOldestFirst(a, b) ==
  IF IsCritical(a) /\ ~IsCritical(b) THEN -1
  ELSE IF IsCritical(b) /\ ~IsCritical(a) THEN 1
  ELSE a.timestamp - b.timestamp

\* instructions first, then most recent first
ByRecency(a, b) ==
  IF IsCritical(a) /\ ~IsCritical(b) THEN -1
  ELSE IF IsCritical(b) /\ ~IsCritical(a) THEN 1
  ELSE b.timestamp - a.timestamp

\* PinMode with the test of the instructions text negated
PinModeNegated(preserve, instructions) == preserve /\ ~(instructions > 0)

\* (a, b) => b.timestamp.getTime() - a.timestamp.getTime()
ByTimestamp(a, b) == b.timestamp - a.timestamp

\* [...this.items].sort((a, b) => b.priority - a.priority)
SortByPriority(s) ==
  StableSort(s, [a \in 1..Len(s) |-> [b \in 1..Len(s) |-> ByPriority(s[a], s[b])]])

\* the sort of finalItems, and of getFormattedContext
SortByRecency(s) ==
  StableSort(s, [a \in 1..Len(s) |-> [b \in 1..Len(s) |-> ByRecency(s[a], s[b])]])

\* the sort of summarizeArchived
SortByTimestamp(s) ==
  StableSort(s, [a \in 1..Len(s) |-> [b \in 1..Len(s) |-> ByTimestamp(s[a], s[b])]])

\* the pinned-instructions branch of compress is taken
PinMode(preserve, instructions) == preserve /\ instructions > 0

\* FitsAsIs with < for <=
FitsAsIsStrict(originalSize, size) == originalSize < size

\* the no-op fast path of compress
FitsAsIs(originalSize, size) == originalSize <= size

\* Fits without the size of the item under test
FitsIgnoringItem(currentSize, itemSize, availableSize) == currentSize <= availableSize

\* the packing test of the selection loop
Fits(currentSize, itemSize, availableSize) == currentSize + itemSize <= availableSize

\* AvailableSize without the subtraction
AvailableSizeWhole(size, instructionsSize) == size

\* space left for the regular items
AvailableSize(size, instructionsSize) == size - instructionsSize

\* Select with a break after the first item that does not fit
RECURSIVE SelectWithCutoff(_, _, _)
SelectWithCutoff(regularItems, availableSize, currentSize) ==
  IF regularItems = <<>> THEN [kept |-> <<>>, archived |-> <<>>]
  ELSE LET item == Head(regularItems)
           itemSize == Estimate(item.content)
       IN IF currentSize + itemSize <= availableSize
          THEN LET r == SelectWithCutoff(Tail(regularItems), availableSize,
                                         currentSize + itemSize)
               IN [kept |-> <<item>> \o r.kept, archived |-> r.archived]
          ELSE [kept |-> <<>>,
                archived |-> [k \in 1..Len(regularItems) |->
                                [regularItems[k] EXCEPT !.archived = TRUE]]]

\* Select that archives an item without setting its archived flag
RECURSIVE SelectUnflagged(_, _, _)
SelectUnflagged(regularItems, availableSize, currentSize) ==
  IF regularItems = <<>> THEN [kept |-> <<>>, archived |-> <<>>]
  ELSE LET item == Head(regularItems)
           itemSize == Estimate(item.content)
       IN IF Fits(currentSize, itemSize, availableSize)
          THEN LET r == SelectUnflagged(Tail(regularItems), availableSize,
                                        currentSize + itemSize)
               IN [kept |-> <<item>> \o r.kept, archived |-> r.archived]
          ELSE LET r == SelectUnflagged(Tail(regularItems), availableSize, currentSize)
               IN [kept |-> r.kept, archived |-> <<item>> \o r.archived]

\* the selection loop: one pass over regularItems, in order
RECURSIVE Select(_, _, _)
Select(regularItems, availableSize, currentSize) ==
  IF regularItems = <<>> THEN [kept |-> <<>>, archived |-> <<>>]
  ELSE LET item == Head(regularItems)
           itemSize == Estimate(item.content)
       IN IF Fits(currentSize, itemSize, availableSize)
          THEN LET r == Select(Tail(regularItems), availableSize, currentSize + itemSize)
               IN [kept |-> <<item>> \o r.kept, archived |-> r.archived]
          ELSE LET r == Select(Tail(regularItems), availableSize, currentSize)
               IN [kept |-> r.kept,
                   archived |-> <<[item EXCEPT !.archived = TRUE]>> \o r.archived]

\* Push that assigns the rejected items instead of appending them
PushReplacing(arch, rejected) == rejected

\* this.archivedItems.push(item), for each rejected item in turn
Push(arch, rejected) == arch \o rejected

\* RemoveAt that leaves the array as it is
RemoveAtNothing(s, i) == s

\* splice(i, 1)
RemoveAt(s, i) == SubSeq(s, 1, i - 1) \o SubSeq(s, i + 1, Len(s))

NoResult == [path |-> "none", originalSize |-> 0, compressedSize |-> 0,
             compressionRatio |-> <<1, 1>>]

\* compress(): the new items, the new archivedItems and the CompressionResult
CompressOf(its, arch, size, preserve, instr) ==
  LET originalSize == GetCurrentSize(its)
  IN IF FitsAsIs(originalSize, size)
     THEN [items |-> its, archivedItems |-> arch,
           result |-> [path |-> "fast", originalSize |-> originalSize,
                       compressedSize |-> originalSize,
                       compressionRatio |-> <<1, 1>>]]
     ELSE LET sortedItems == SortByPriority(its)
              pin == PinMode(preserve, instr)
              critical(i) == IsCritical(i)
              regular(i) == i.priority <= 90
              instructions == IF pin THEN SelectSeq(sortedItems, critical) ELSE <<>>
              regularItems == IF pin THEN SelectSeq(sortedItems, regular) ELSE sortedItems
              instructionsSize == SumSizes(instructions)
              availableSize == AvailableSize(size, instructionsSize)
              sel == Select(regularItems, availableSize, 0)
              finalItems == SortByRecency(instructions \o sel.kept)
              compressedSize == GetCurrentSize(finalItems)
          IN [items |-> finalItems, archivedItems |-> Push(arch, sel.archived),
              result |-> [path |-> "overflow", originalSize |-> originalSize,
                          compressedSize |-> compressedSize,
                          compressionRatio |-> <<compressedSize, originalSize>>]]

IndexOf(s, id) == IF \E i \in 1..Len(s) : s[i].id = id
                  THEN CHOOSE i \in 1..Len(s) : s[i].id = id /\ \A j \in 1..(i-1) : s[j].id # id
                  ELSE 0

\* what the last call was and what it returned; id is the fragment a call acted on
\* (0 when it acted on none)
Op(op, id, ret, result) == [op |-> op, id |-> id, ret |-> ret, result |-> result]

\* ------------------------------------------- TokenBudgetManager, pure part

\* options.warningThreshold || 0.7, options.criticalThreshold || 0.9
DefaultWarningThreshold == 70
DefaultCriticalThreshold == 90

\* estimateCost(tokens, mode)
Multiplier(mode) == CASE mode = "chat" -> 1 [] mode = "single" -> 4 [] mode = "multi" -> 15
EstimateCost(tokens, mode) == tokens * Multiplier(mode)

\* the alertLevel getStatus() computes: percentage >= threshold, percentage being
\* used / maxTokens; "none" is null
AlertLevelOf(u, cfg) ==
  IF u * 100 >= cfg.criticalThreshold * cfg.maxTokens THEN "critical"
  ELSE IF u * 100 >= cfg.warningThreshold * cfg.maxTokens THEN "warning"
  ELSE "none"

\* getStatus(); percentage is the pair <<numerator, denominator>> of
\* Math.min(1, used / maxTokens)
GetStatus(u, cfg) ==
  [used |-> u,
   remaining |-> Max(0, cfg.maxTokens - u),
   percentage |-> <<Min(u, cfg.maxTokens), cfg.maxTokens>>,
   alertLevel |-> AlertLevelOf(u, cfg)]

\* checkAlerts(): the alert list after it
CheckAlerts(al, u, cfg) ==
  LET status == GetStatus(u, cfg)
  IN IF status.alertLevel # "none"
     THEN Append(al, [level |-> status.alertLevel, currentUsage |-> status.used,
                      budget |-> cfg.maxTokens, percentage |-> status.percentage])
     ELSE al

\* findFallbackMode(tokens); "none" is null
FindFallbackMode(tokens, u, cfg) ==
  LET remaining == GetStatus(u, cfg).remaining
  IN IF EstimateCost(tokens, "chat") <= remaining THEN "chat"
     ELSE IF EstimateCost(tokens, "single") <= remaining THEN "single"
     ELSE "none"

\* this.used after reserve(tokens, mode)
UsedAfterReserve(u, tokens, mode) == u + EstimateCost(tokens, mode)

\* a release that gives back the token count, not its cost in the mode
UsedAfterReleaseOfTokens(u, tokens, mode) == Max(0, u - tokens)

\* this.used after release(reservationId, tokens, mode)
UsedAfterRelease(u, tokens, mode) == Max(0, u - EstimateCost(tokens, mode))

\* a canExecute that offers the fallback mode findFallbackMode names without
\* projecting its cost
CanExecuteOfUnprojected(tokens, mode, u, cfg, autoFallback) ==
  LET estimatedCost == EstimateCost(tokens, mode)
      fallback == FindFallbackMode(tokens, u, cfg)
  IN IF u + estimatedCost <= cfg.maxTokens
     THEN [allowed |-> TRUE, estimatedCost |-> estimatedCost, fallback |-> "none"]
     ELSE IF autoFallback /\ fallback # "none"
          THEN [allowed |-> FALSE, estimatedCost |-> estimatedCost, fallback |-> fallback]
          ELSE [allowed |-> FALSE, estimatedCost |-> estimatedCost, fallback |-> "none"]

\* canExecute(tokens, mode): what it returns; fallback "none" is an absent field
CanExecuteOf(tokens, mode, u, cfg, autoFallback) ==
  LET estimatedCost == EstimateCost(tokens, mode)
      status == GetStatus(u, cfg)
      projectedUsage == status.used + estimatedCost
      fallback == FindFallbackMode(tokens, u, cfg)
  IN IF projectedUsage <= cfg.maxTokens
     THEN [allowed |-> TRUE, estimatedCost |-> estimatedCost, fallback |-> "none"]
     ELSE IF /\ autoFallback
             /\ fallback # "none"
             /\ status.used + EstimateCost(tokens, fallback) <= cfg.maxTokens
          THEN [allowed |-> FALSE, estimatedCost |-> estimatedCost, fallback |-> fallback]
          ELSE [allowed |-> FALSE, estimatedCost |-> estimatedCost, fallback |-> "none"]

\* what the last call on the manager was and what it returned
BudgetCall(op, ret) == [op |-> op, ret |-> ret]

\* new TokenBudgetManager({defaultBudget, enableAutoFallback})
BudgetNew(defaultBudget, autoFallback) ==
  /\ budgetConfig = [maxTokens |-> defaultBudget,
                     warningThreshold |-> DefaultWarningThreshold,
                     criticalThreshold |-> DefaultCriticalThreshold,
                     fallbackMode |-> "chat"]
  /\ used = 0
  /\ alerts = <<>>
  /\ enableAutoFallback = autoFallback
  /\ called = BudgetCall("new", TRUE)

\* --------------------------------------- AgentPerformanceProfiler, pure part

\* the place of agentId in the Map, 0 when it has no entry
IndexOfAgent(ags, agentId) ==
  IF \E i \in 1..Len(ags) : ags[i].agentId = agentId
  THEN CHOOSE i \in 1..Len(ags) : ags[i].agentId = agentId
  ELSE 0

\* trackAgent(agentId, agentName): the Map after it
Tracked(ags, agentId) ==
  IF IndexOfAgent(ags, agentId) # 0 THEN ags
  ELSE Append(ags, [agentId |-> agentId, agentName |-> agentId, tokensUsed |-> 0,
                    executionTimeMs |-> 0, contextUtilization |-> <<0, 1>>,
                    calls |-> 0, errors |-> 0])

RECURSIVE TotalTime(_)
TotalTime(ags) == IF ags = <<>> THEN 0 ELSE Head(ags).executionTimeMs + TotalTime(Tail(ags))

RECURSIVE TotalCalls(_)
TotalCalls(ags) == IF ags = <<>> THEN 0 ELSE Head(ags).calls + TotalCalls(Tail(ags))

\* the timestamp of the last 'start' event of agentId, -1 when there is none
RECURSIVE LastStart(_, _)
LastStart(evs, agentId) ==
  IF evs = <<>> THEN -1
  ELSE LET e == evs[Len(evs)]
       IN IF e.type = "start" /\ e.agentId = agentId THEN e.timestamp
          ELSE LastStart(SubSeq(evs, 1, Len(evs) - 1), agentId)

\* avgTime.toFixed(0), avgTime being getAverageExecutionTime()
AverageShown(ags) ==
  IF TotalCalls(ags) > 0
  THEN (2 * TotalTime(ags) + TotalCalls(ags)) \div (2 * TotalCalls(ags))
  ELSE 0

\* agent.executionTimeMs > threshold && agent.calls > 0, threshold being twice
\* getAverageExecutionTime()
OverThreshold(ags, agent) ==
  /\ agent.calls > 0
  /\ IF TotalCalls(ags) > 0
     THEN agent.executionTimeMs * TotalCalls(ags) > 2 * TotalTime(ags)
     ELSE agent.executionTimeMs > 0

\* checkBottleneck(agent): the list of messages after it
CheckBottleneck(bs, ags, agent) ==
  LET bottleneckMsg == [agentName |-> agent.agentName,
                        executionTimeMs |-> agent.executionTimeMs,
                        avg |-> AverageShown(ags)]
  IN IF OverThreshold(ags, agent) /\ \A k \in 1..Len(bs) : bs[k] # bottleneckMsg
     THEN Append(bs, bottleneckMsg)
     ELSE bs

\* new AgentPerformanceProfiler({workflowId, trackContextUtilization})
ProfilerNew(track) ==
  /\ trackContextUtilization = track
  /\ agents = <<>>
  /\ events = <<>>
  /\ startTime = 0
  /\ bottlenecks = <<>>

\* ------------------------------------------------------------------- state

\* new ContextCompressionMiddleware({maxSize, preserveInstructionsAtStart,
\* instructionsContent})
ContextNew(size, preserve, instructions) ==
  /\ maxSize = size
  /\ preserveInstructionsAtStart = preserve
  /\ instructionsContent = instructions
  /\ archiveThreshold = DefaultArchiveThreshold
  /\ items = <<>>
  /\ archivedItems = <<>>
  /\ idCounter = 0
  /\ clock = 0
  /\ last = Op("new", 0, TRUE, NoResult)

Init ==
  /\ \E size \in Sizes, preserve \in BOOLEAN, instructions \in Instructions :
       ContextNew(size, preserve, instructions)
  /\ BudgetNew(10, TRUE)
  /\ ProfilerNew(TRUE)

\* this.compress() as the last statement of `op`, run on the collections its, arch
RunCompress(op, id, its, arch, size) ==
  \E c \in {CompressOf(its, arch, size, preserveInstructionsAtStart, instructionsContent)} :
     /\ items' = c.items
     /\ archivedItems' = c.archivedItems
     /\ last' = Op(op, id, TRUE, c.result)

\* addItem(content, priority) when Date.now() reads `now`
AddItemAt(content, priority, now) ==
  /\ clock' = now
  /\ LET item == [id |-> idCounter + 1, content |-> content,
                  priority |-> AddedPriority(priority), timestamp |-> now,
                  archived |-> FALSE]
     IN RunCompress("addItem", idCounter + 1, Append(items, item), archivedItems, maxSize)
  /\ idCounter' = idCounter + 1
  /\ UNCHANGED <<budgetVars, profilerVars, maxSize, instructionsContent, config>>

\* addItem(content, priority)
AddItem(content, priority) ==
  /\ idCounter < MaxItems
  /\ \E now \in {clock, clock + 1} :
       /\ now <= MaxClock
       /\ AddItemAt(content, priority, now)

\* an updatePriority that compacts after a successful update
UpdatePriorityCompacting(itemId, priority) ==
  /\ \E i \in {IndexOf(items, itemId)} :
       IF i # 0
       THEN \E c \in {CompressOf([items EXCEPT ![i].priority = Clamp(priority)],
                                  archivedItems, maxSize, preserveInstructionsAtStart,
                                  instructionsContent)} :
              /\ items' = c.items
              /\ archivedItems' = c.archivedItems
              /\ last' = Op("updatePriority", itemId, TRUE, NoResult)
       ELSE /\ items' = items
            /\ archivedItems' = archivedItems
            /\ last' = Op("updatePriority", 0, FALSE, NoResult)
  /\ UNCHANGED <<budgetVars, profilerVars, maxSize, instructionsContent, config, idCounter, clock>>

\* updatePriority(itemId, priority)
UpdatePriority(itemId, priority) ==
  /\ \E i \in {IndexOf(items, itemId)} :
       IF i # 0
       THEN /\ items' = [items EXCEPT ![i].priority = Clamp(priority)]
            /\ last' = Op("updatePriority", itemId, TRUE, NoResult)
       ELSE /\ items' = items
            /\ last' = Op("updatePriority", 0, FALSE, NoResult)
  /\ UNCHANGED <<budgetVars, profilerVars, maxSize, instructionsContent, config, archivedItems, idCounter, clock>>

\* compress()
Compress ==
  /\ RunCompress("compress", 0, items, archivedItems, maxSize)
  /\ UNCHANGED <<budgetVars, profilerVars, maxSize, instructionsContent, config, idCounter, clock>>

\* a removeItem that looks for the identifier in the archive as well
RemoveItemAnywhere(itemId) ==
  /\ \E i \in {IndexOf(items, itemId)}, j \in {IndexOf(archivedItems, itemId)} :
       /\ items' = IF i # 0 THEN RemoveAt(items, i) ELSE items
       /\ archivedItems' = IF j # 0 THEN RemoveAt(archivedItems, j) ELSE archivedItems
       /\ last' = IF i # 0 \/ j # 0 THEN Op("removeItem", itemId, TRUE, NoResult)
                  ELSE Op("removeItem", 0, FALSE, NoResult)
  /\ UNCHANGED <<budgetVars, profilerVars, maxSize, instructionsContent, config, idCounter, clock>>

\* removeItem(itemId)
RemoveItem(itemId) ==
  /\ \E i \in {IndexOf(items, itemId)} :
       IF i # 0
       THEN /\ items' = RemoveAt(items, i)
            /\ last' = Op("removeItem", itemId, TRUE, NoResult)
       ELSE /\ items' = items
            /\ last' = Op("removeItem", 0, FALSE, NoResult)
  /\ UNCHANGED <<budgetVars, profilerVars, maxSize, instructionsContent, config, archivedItems, idCounter, clock>>

\* a clear that starts the identifiers again
ClearResettingCounter ==
  /\ items' = <<>>
  /\ archivedItems' = <<>>
  /\ idCounter' = 0
  /\ last' = Op("clear", 0, TRUE, NoResult)
  /\ UNCHANGED <<budgetVars, profilerVars, maxSize, instructionsContent, config, clock>>

\* clear()
Clear ==
  /\ items' = <<>>
  /\ archivedItems' = <<>>
  /\ last' = Op("clear", 0, TRUE, NoResult)
  /\ UNCHANGED <<budgetVars, profilerVars, maxSize, instructionsContent, config, idCounter, clock>>

\* clearArchived()
ClearArchived ==
  /\ archivedItems' = <<>>
  /\ last' = Op("clearArchived", 0, TRUE, NoResult)
  /\ UNCHANGED <<budgetVars, profilerVars, maxSize, instructionsContent, config, items, idCounter, clock>>

\* setInstructions(content)
SetInstructions(content) ==
  /\ instructionsContent' = content
  /\ last' = Op("setInstructions", 0, TRUE, NoResult)
  /\ UNCHANGED <<budgetVars, profilerVars, maxSize, config, items, archivedItems, idCounter, clock>>

\* a setMaxSize that takes the archived fragments back before it compacts
SetMaxSizeRefilling(size) ==
  /\ maxSize' = size
  /\ RunCompress("setMaxSize", 0,
                 items \o [k \in 1..Len(archivedItems) |->
                             [archivedItems[k] EXCEPT !.archived = FALSE]],
                 <<>>, size)
  /\ UNCHANGED <<budgetVars, profilerVars, instructionsContent, config, idCounter, clock>>

\* setMaxSize(size)
SetMaxSize(size) ==
  /\ maxSize' = size
  /\ RunCompress("setMaxSize", 0, items, archivedItems, size)
  /\ UNCHANGED <<budgetVars, profilerVars, instructionsContent, config, idCounter, clock>>

\* a restoreItem that leaves the archived flag of the fragment set
RestoreItemKeepingFlag(itemId) ==
  /\ \E i \in {IndexOf(archivedItems, itemId)} :
       IF i # 0
       THEN RunCompress("restoreItem", itemId, Append(items, archivedItems[i]),
                        RemoveAt(archivedItems, i), maxSize)
       ELSE /\ items' = items
            /\ archivedItems' = archivedItems
            /\ last' = Op("restoreItem", 0, FALSE, NoResult)
  /\ UNCHANGED <<budgetVars, profilerVars, maxSize, instructionsContent, config, idCounter, clock>>

\* a restoreItem that compacts whether or not it found the identifier
RestoreItemCompacting(itemId) ==
  /\ \E i \in {IndexOf(archivedItems, itemId)} :
       IF i # 0
       THEN LET item == [archivedItems[i] EXCEPT !.archived = FALSE]
            IN RunCompress("restoreItem", itemId, Append(items, item),
                           RemoveAt(archivedItems, i), maxSize)
       ELSE \E c \in {CompressOf(items, archivedItems, maxSize,
                                  preserveInstructionsAtStart, instructionsContent)} :
              /\ items' = c.items
              /\ archivedItems' = c.archivedItems
              /\ last' = Op("restoreItem", 0, FALSE, c.result)
  /\ UNCHANGED <<budgetVars, profilerVars, maxSize, instructionsContent, config, idCounter, clock>>

\* restoreItem(itemId)
RestoreItem(itemId) ==
  /\ \E i \in {IndexOf(archivedItems, itemId)} :
       IF i # 0
       THEN LET item == [archivedItems[i] EXCEPT !.archived = FALSE]
            IN RunCompress("restoreItem", itemId, Append(items, item),
                           RemoveAt(archivedItems, i), maxSize)
       ELSE /\ items' = items
            /\ archivedItems' = archivedItems
            /\ last' = Op("restoreItem", 0, FALSE, NoResult)
  /\ UNCHANGED <<budgetVars, profilerVars, maxSize, instructionsContent, config, idCounter, clock>>

\* an archiveLowPriority that returns the size of the archive
ArchiveLowPriorityCountingArchive ==
  /\ LET low(i) == i.priority < archiveThreshold
         flag(i) == [i EXCEPT !.archived = TRUE]
         toArchive == SelectSeq(items, low)
         resident(i) == ~low(i)
     IN /\ archivedItems' = archivedItems \o [k \in 1..Len(toArchive) |-> flag(toArchive[k])]
        /\ items' = SelectSeq(items, resident)
        /\ last' = Op("archiveLowPriority", 0, Len(archivedItems) + Len(toArchive), NoResult)
  /\ UNCHANGED <<budgetVars, profilerVars, maxSize, instructionsContent, config, idCounter, clock>>

\* archiveLowPriority()
ArchiveLowPriority ==
  /\ LET low(i) == i.priority < archiveThreshold
         flag(i) == [i EXCEPT !.archived = TRUE]
         toArchive == SelectSeq(items, low)
         marked == [k \in 1..Len(items) |-> IF low(items[k]) THEN flag(items[k]) ELSE items[k]]
         resident(i) == ~i.archived
     IN /\ archivedItems' = archivedItems \o [k \in 1..Len(toArchive) |-> flag(toArchive[k])]
        /\ items' = SelectSeq(marked, resident)
        /\ last' = Op("archiveLowPriority", 0, Len(toArchive), NoResult)
  /\ UNCHANGED <<budgetVars, profilerVars, maxSize, instructionsContent, config, idCounter, clock>>

\* summarizeArchived(maxItems): Array.prototype.sort sorts this.archivedItems in place;
\* the summary lists the first maxItems of them
SummarizeArchived(maxItems) ==
  /\ \E sorted \in {SortByTimestamp(archivedItems)} :
       /\ archivedItems' = sorted
       /\ last' = Op("summarizeArchived", 0,
                     [k \in 1..Min(maxItems, Len(sorted)) |-> sorted[k].id], NoResult)
  /\ UNCHANGED <<budgetVars, profilerVars, maxSize, instructionsContent, config, items, idCounter, clock>>

\* the tier marker getFormattedContext puts before an item
PriorityLabel(item) == IF item.priority > 90 THEN "star"
                       ELSE IF item.priority > 60 THEN "pin" ELSE "memo"

\* getFormattedContext(): the instructions header, the items in display order, and
\* the archived-count line
FormattedContext(its, arch, preserve, instr) ==
  LET sortedItems == SortByRecency(its)
  IN [instructions |-> PinMode(preserve, instr),
      lines |-> [k \in 1..Len(sortedItems) |->
                   [label |-> PriorityLabel(sortedItems[k]), id |-> sortedItems[k].id]],
      archivedLine |-> Len(arch)]

GetFormattedContext ==
  /\ last' = Op("getFormattedContext", 0,
                FormattedContext(items, archivedItems, preserveInstructionsAtStart,
                                 instructionsContent), NoResult)
  /\ UNCHANGED <<budgetVars, profilerVars, maxSize, instructionsContent, config, items, archivedItems, idCounter, clock>>

Next ==
  \/ \E content \in Contents, priority \in Priorities : AddItem(content, priority)
  \/ \E itemId \in Ids, priority \in Priorities : UpdatePriority(itemId, priority)
  \/ Compress
  \/ \E itemId \in Ids : RemoveItem(itemId)
  \/ Clear
  \/ ClearArchived
  \/ \E content \in Instructions : SetInstructions(content)
  \/ \E size \in Sizes : SetMaxSize(size)
  \/ \E itemId \in Ids : RestoreItem(itemId)
  \/ ArchiveLowPriority
  \/ \E maxItems \in Limits : SummarizeArchived(maxItems)
  \/ GetFormattedContext

Spec == Init /\ [][Next]_vars

\* ------------------------------------------------ the example conversation

\* sizes, in units, and priorities of the sixteen fragments: six, then ten more
ScenarioSizes == <<20, 5, 40, 15, 10, 30>> \o [i \in 1..10 |-> 20]
ScenarioPriorities == <<30, 80, 40, 70, 20, 60>> \o [i \in 1..10 |-> 30 + 5 * (i - 1)]

\* the content lengths whose estimate is `units`, shortest and longest
LengthsOf(units) == {4 * units - 3, 4 * units}

\* capacity 500, pin mode on, an instructions text of 100 units
ScenarioInit ==
  /\ \E instructions \in LengthsOf(100) : ContextNew(500, TRUE, instructions)
  /\ BudgetNew(10, TRUE)
  /\ ProfilerNew(TRUE)

\* the next addItem of the conversation; the ten later fragments come from one
\* template and have one length
ScenarioAdd ==
  /\ idCounter < Len(ScenarioSizes)
  /\ \E content \in IF idCounter < 6 THEN LengthsOf(ScenarioSizes[idCounter + 1])
                    ELSE {4 * ScenarioSizes[idCounter + 1]},
        now \in {clock, clock + 1} :
       /\ now <= MaxClock
       /\ AddItemAt(content, ScenarioPriorities[idCounter + 1], now)

ScenarioNext == ScenarioAdd

SpecScenario == ScenarioInit /\ [][ScenarioNext]_vars

\* ------------------------------------------- TokenBudgetManager, operations

\* reserve(tokens, mode)
Reserve(tokens, mode) ==
  /\ \E u \in {UsedAfterReserve(used, tokens, mode)}, reservationId \in ReservationIds :
       /\ u <= MaxUsed
       /\ Len(CheckAlerts(alerts, u, budgetConfig)) <= MaxAlerts
       /\ used' = u
       /\ alerts' = CheckAlerts(alerts, u, budgetConfig)
       /\ called' = BudgetCall("reserve", reservationId)
  /\ UNCHANGED <<contextVars, profilerVars, budgetConfig, enableAutoFallback>>

\* release(reservationId, tokens, mode)
Release(reservationId, tokens, mode) ==
  /\ \E u \in {UsedAfterRelease(used, tokens, mode)} :
       /\ Len(CheckAlerts(alerts, u, budgetConfig)) <= MaxAlerts
       /\ used' = u
       /\ alerts' = CheckAlerts(alerts, u, budgetConfig)
  /\ called' = BudgetCall("release", TRUE)
  /\ UNCHANGED <<contextVars, profilerVars, budgetConfig, enableAutoFallback>>

\* consume(actualTokens, mode)
Consume(actualTokens, mode) ==
  /\ \E u \in {used + EstimateCost(actualTokens, mode)} :
       /\ u <= MaxUsed
       /\ Len(CheckAlerts(alerts, u, budgetConfig)) <= MaxAlerts
       /\ used' = u
       /\ alerts' = CheckAlerts(alerts, u, budgetConfig)
  /\ called' = BudgetCall("consume", TRUE)
  /\ UNCHANGED <<contextVars, profilerVars, budgetConfig, enableAutoFallback>>

\* canExecute(tokens, mode)
CanExecute(tokens, mode) ==
  /\ called' = BudgetCall("canExecute",
                          CanExecuteOf(tokens, mode, used, budgetConfig, enableAutoFallback))
  /\ UNCHANGED <<contextVars, profilerVars, budgetConfig, used, alerts, enableAutoFallback>>

\* clearAlerts()
ClearAlerts ==
  /\ alerts' = <<>>
  /\ called' = BudgetCall("clearAlerts", TRUE)
  /\ UNCHANGED <<contextVars, profilerVars, budgetConfig, used, enableAutoFallback>>

\* reset()
Reset ==
  /\ used' = 0
  /\ alerts' = <<>>
  /\ called' = BudgetCall("reset", TRUE)
  /\ UNCHANGED <<contextVars, profilerVars, budgetConfig, enableAutoFallback>>

\* updateConfig({maxTokens})
UpdateConfig(maxTokens) ==
  /\ budgetConfig' = [budgetConfig EXCEPT !.maxTokens = maxTokens]
  /\ called' = BudgetCall("updateConfig", TRUE)
  /\ UNCHANGED <<contextVars, profilerVars, used, alerts, enableAutoFallback>>

\* setAutoFallback(enabled)
SetAutoFallback(enabled) ==
  /\ enableAutoFallback' = enabled
  /\ called' = BudgetCall("setAutoFallback", TRUE)
  /\ UNCHANGED <<contextVars, profilerVars, budgetConfig, used, alerts>>

BudgetInit ==
  /\ ContextNew(0, FALSE, 0)
  /\ \E defaultBudget \in Budgets, autoFallback \in BOOLEAN :
       BudgetNew(defaultBudget, autoFallback)
  /\ ProfilerNew(TRUE)

BudgetNext ==
  \/ \E tokens \in Tokens, mode \in Modes : Reserve(tokens, mode)
  \/ \E reservationId \in ReservationIds \cup ForeignIds, tokens \in Tokens, mode \in Modes :
       Release(reservationId, tokens, mode)
  \/ \E actualTokens \in Tokens, mode \in Modes : Consume(actualTokens, mode)
  \/ \E tokens \in Tokens, mode \in Modes : CanExecute(tokens, mode)
  \/ ClearAlerts
  \/ Reset
  \/ \E maxTokens \in Budgets : UpdateConfig(maxTokens)
  \/ \E enabled \in BOOLEAN : SetAutoFallback(enabled)

SpecBudget == BudgetInit /\ [][BudgetNext]_vars

\* ------------------------------------ AgentPerformanceProfiler, operations

\* a profiler event; tokens is 0 where the event has none
Event(type, agentId, timestamp, tokens) ==
  [type |-> type, agentId |-> agentId, timestamp |-> timestamp, tokens |-> tokens]

\* trackAgent(agentId, agentName)
TrackAgent(agentId) ==
  /\ agents' = Tracked(agents, agentId)
  /\ UNCHANGED <<contextVars, budgetVars, trackContextUtilization, events, startTime,
                 bottlenecks>>

\* recordStart(agentId, agentName)
RecordStart(agentId) ==
  /\ Len(events) < MaxEvents
  /\ \E now \in {clock, clock + 1} :
       /\ now <= MaxClock
       /\ clock' = now
       /\ events' = Append(events, Event("start", agentId, now, 0))
  /\ agents' = Tracked(agents, agentId)
  /\ UNCHANGED <<contextFields, budgetVars, trackContextUtilization, startTime,
                 bottlenecks>>

\* recordEnd(agentId, tokensUsed)
RecordEnd(agentId, tokensUsed) ==
  \E i \in {IndexOfAgent(agents, agentId)} :
     IF i = 0
     THEN UNCHANGED vars
     ELSE /\ Len(events) < MaxEvents
          /\ \E now \in {clock, clock + 1} :
               /\ now <= MaxClock
               /\ clock' = now
               /\ \E started \in {LastStart(events, agentId)} :
                    \E ags \in {[agents EXCEPT
                                   ![i].tokensUsed = @ + tokensUsed,
                                   ![i].executionTimeMs =
                                      @ + (IF started >= 0 THEN now - started ELSE 0),
                                   ![i].calls = @ + 1]} :
                       /\ agents' = ags
                       /\ bottlenecks' = CheckBottleneck(bottlenecks, ags, ags[i])
               /\ events' = Append(events, Event("end", agentId, now, tokensUsed))
          /\ UNCHANGED <<contextFields, budgetVars, trackContextUtilization, startTime>>

\* recordError(agentId, error)
RecordError(agentId) ==
  /\ Len(events) < MaxEvents
  /\ \E i \in {IndexOfAgent(agents, agentId)} :
       agents' = IF i # 0 THEN [agents EXCEPT ![i].errors = @ + 1] ELSE agents
  /\ \E now \in {clock, clock + 1} :
       /\ now <= MaxClock
       /\ clock' = now
       /\ events' = Append(events, Event("error", agentId, now, 0))
  /\ UNCHANGED <<contextFields, budgetVars, trackContextUtilization, startTime,
                 bottlenecks>>

\* recordContext(agentId, contextSize, contextLimit)
RecordContext(agentId, contextSize, contextLimit) ==
  \E i \in {IndexOfAgent(agents, agentId)} :
     IF i = 0 \/ ~trackContextUtilization
     THEN UNCHANGED vars
     ELSE /\ Len(events) < MaxEvents
          /\ agents' = [agents EXCEPT ![i].contextUtilization =
                                         <<contextSize, contextLimit>>]
          /\ \E now \in {clock, clock + 1} :
               /\ now <= MaxClock
               /\ clock' = now
               /\ events' = Append(events, Event("context", agentId, now, 0))
          /\ UNCHANGED <<contextFields, budgetVars, trackContextUtilization, startTime,
                         bottlenecks>>

\* reset()
ProfilerReset ==
  /\ agents' = <<>>
  /\ events' = <<>>
  /\ bottlenecks' = <<>>
  /\ \E now \in {clock, clock + 1} :
       /\ now <= MaxClock
       /\ clock' = now
       /\ startTime' = now
  /\ UNCHANGED <<contextFields, budgetVars, trackContextUtilization>>

ProfilerInit ==
  /\ ContextNew(0, FALSE, 0)
  /\ BudgetNew(10, TRUE)
  /\ \E track \in BOOLEAN : ProfilerNew(track)

ProfilerNext ==
  \/ \E agentId \in AgentIds : TrackAgent(agentId)
  \/ \E agentId \in AgentIds : RecordStart(agentId)
  \/ \E agentId \in AgentIds, tokensUsed \in TokensUsed : RecordEnd(agentId, tokensUsed)
  \/ \E agentId \in AgentIds : RecordError(agentId)
  \/ \E agentId \in AgentIds, contextSize \in ContextSizes, contextLimit \in ContextLimits :
       RecordContext(agentId, contextSize, contextLimit)
  \/ ProfilerReset

SpecProfiler == ProfilerInit /\ [][ProfilerNext]_vars

\* ------------------------------------------------------------------ claims

\* pin mode is on and the instructions text is non-empty
PinConfigured == preserveInstructionsAtStart /\ instructionsContent > 0

HasRegularPriority(item) == item.priority <= 90
HasCriticalPriority(item) == item.priority > 90

ResidentIds == IdsOf(items)
ArchivedIds == IdsOf(archivedItems)

RegularSize(s) == SumSizes(SelectSeq(s, HasRegularPriority))
CriticalSize(s) == SumSizes(SelectSeq(s, HasCriticalPriority))

\* the last call ran a compaction: addItem, setMaxSize, compress, or a restoreItem
\* that found its fragment
Compacted ==
  \/ last.op \in {"addItem", "setMaxSize", "compress"}
  \/ (last.op = "restoreItem" /\ last.ret = TRUE)

\* the same of the call this step makes
CompactionStep ==
  \/ last'.op \in {"addItem", "setMaxSize", "compress"}
  \/ (last'.op = "restoreItem" /\ last'.ret = TRUE)

\* this step's call pushed a fragment onto the resident collection before compacting
PushingStep ==
  \/ last'.op = "addItem"
  \/ (last'.op = "restoreItem" /\ last'.ret = TRUE)

\* the resident collection at the moment this step's compaction starts
Starting ==
  IF PushingStep
  THEN LET all == items' \o archivedItems'
           at == IndexOf(all, last'.id)
       IN IF at = 0 THEN items ELSE Append(items, [all[at] EXCEPT !.archived = FALSE])
  ELSE items

\* C1: in every reachable state no fragment identifier is in both the resident
\* collection and the archive collection.
C1_Disjoint == ResidentIds \cap ArchivedIds = {}

C1_Witness ==
  /\ Compacted /\ last.result.path = "overflow"
  /\ items # <<>> /\ archivedItems # <<>>

\* C2: every call changes the identifiers held in resident + archive only by the one
\* addItem issues and the ones removeItem, clear or clearArchived destroy, each
\* identifier is held exactly once, and a compaction keeps every fragment that was
\* already in the archive there.
C2_Step ==
  LET before == ResidentIds \cup ArchivedIds
      after == IdsOf(items') \cup IdsOf(archivedItems')
      issued == IF last'.op = "addItem" THEN {last'.id} ELSE {}
      destroyed == IF last'.op = "removeItem" THEN (IF last'.ret THEN {last'.id} ELSE {})
                   ELSE IF last'.op = "clear" THEN before
                   ELSE IF last'.op = "clearArchived" THEN ArchivedIds
                   ELSE {}
      restored == IF last'.op = "restoreItem" /\ last'.ret = TRUE THEN {last'.id} ELSE {}
  IN /\ after = (before \cup issued) \ destroyed
     /\ Len(items') + Len(archivedItems') = Cardinality(after)
     /\ CompactionStep => (ArchivedIds \ restored) \subseteq IdsOf(archivedItems')

\* C2: every step keeps the identifiers as C2_Step says.
C2_IdentifiersKept == [][C2_Step]_vars

C2_Witness ==
  /\ last.op = "restoreItem" /\ last.ret = TRUE
  /\ last.result.path = "overflow"
  /\ Len(archivedItems) >= 2

C4_Claimed_Step ==
  CompactionStep =>
    \A k \in 1..Len(Starting) :
      HasCriticalPriority(Starting[k]) => Starting[k].id \in IdsOf(items')

\* C4 as claimed, of every step.
C4_Claimed == [][C4_Claimed_Step]_vars

\* C4: when pin mode is on and the instructions text is non-empty, a fragment that
\* is resident with priority > 0.9 when a compaction starts is resident when it ends.
C4_Step == PinConfigured => C4_Claimed_Step

\* C4: every compaction step with the instructions pinned keeps the critical fragments.
C4_CriticalKeptWhenPinned == [][C4_Step]_vars

C4_Witness ==
  /\ Compacted /\ last.result.path = "overflow"
  /\ PinConfigured
  /\ \E k \in 1..Len(items) : HasCriticalPriority(items[k])
  /\ archivedItems # <<>>

\* C5 as claimed: with pin mode on and a non-empty instructions text, after a
\* compaction on the overflow path the regular fragments that were kept, if any,
\* total at most maxSize minus the estimate of the instructions text.
C5_Claimed ==
  (Compacted /\ last.result.path = "overflow" /\ PinConfigured) =>
    \/ SelectSeq(items, HasRegularPriority) = <<>>
    \/ RegularSize(items) <= maxSize - Estimate(instructionsContent)

\* C5: with pin mode on and a non-empty instructions text, the instructions text is
\* not counted: after a compaction on the overflow path the regular fragments that
\* were kept, if any, total at most maxSize minus the total of the resident critical
\* fragments.
C5_RegularWithinCapacityLessCritical ==
  (Compacted /\ last.result.path = "overflow" /\ PinConfigured) =>
    \/ SelectSeq(items, HasRegularPriority) = <<>>
    \/ RegularSize(items) <= maxSize - CriticalSize(items)

\* regular fragments are kept beyond maxSize minus the estimate of the instructions
C5_Witness ==
  /\ Compacted /\ last.result.path = "overflow"
  /\ PinConfigured
  /\ SelectSeq(items, HasRegularPriority) # <<>>
  /\ RegularSize(items) > maxSize - Estimate(instructionsContent)

\* this step's compaction took the overflow path
OverflowStep == CompactionStep /\ last'.result.path = "overflow"

\* the positions of Starting that the selection loop packs: all of them, or those of
\* priority <= 0.9 when the instructions are pinned
Candidates ==
  {i \in 1..Len(Starting) : PinConfigured => HasRegularPriority(Starting[i])}

\* position j is considered before position i: higher priority first, equal
\* priorities in the order in which they stand
ConsideredBefore(j, i) ==
  \/ Starting[j].priority > Starting[i].priority
  \/ (Starting[j].priority = Starting[i].priority /\ j < i)

KeptByStep(i) == Starting[i].id \in IdsOf(items')

RECURSIVE SizeOfPositions(_, _)
SizeOfPositions(s, positions) ==
  IF positions = {} THEN 0
  ELSE LET i == CHOOSE i \in positions : TRUE
       IN Estimate(s[i].content) + SizeOfPositions(s, positions \ {i})

\* what the loop may fill: the new capacity, less the critical fragments when pinned
SpaceForCandidates ==
  maxSize' - (IF PinConfigured THEN CriticalSize(Starting) ELSE 0)

\* C6 as claimed: on the overflow path, once a regular fragment is rejected every
\* fragment considered after it is rejected too.
C6_Claimed_Step ==
  OverflowStep =>
    \A i \in Candidates, j \in Candidates :
      (ConsideredBefore(i, j) /\ ~KeptByStep(i)) => ~KeptByStep(j)

\* C6 as claimed, of every step.
C6_Claimed == [][C6_Claimed_Step]_vars

\* C6: on the overflow path the fragments are considered in priority-descending
\* order in one pass with no cutoff: a fragment is kept exactly when its size fits in
\* what the fragments kept before it have left, so a fragment after a rejected one is
\* still kept when it fits.
C6_Step ==
  OverflowStep =>
    \A i \in Candidates :
      KeptByStep(i) <=>
        SizeOfPositions(Starting, {j \in Candidates : ConsideredBefore(j, i) /\ KeptByStep(j)})
          + Estimate(Starting[i].content) <= SpaceForCandidates

\* C6: every overflow-path compaction keeps exactly the fragments that fit at their turn.
C6_GreedyWithoutCutoff == [][C6_Step]_vars

\* a fragment was kept although one of higher priority was rejected by the same pass
C6_Witness ==
  /\ Compacted /\ last.result.path = "overflow"
  /\ Len(items) = 1 /\ Len(archivedItems) = 1
  /\ HasRegularPriority(items[1]) /\ HasRegularPriority(archivedItems[1])
  /\ archivedItems[1].priority > items[1].priority

\* C7: of two regular fragments of equal size that are resident when a compaction
\* starts, the one of lower priority stays resident only if the other does.
C7_Step ==
  CompactionStep =>
    \A a \in 1..Len(Starting), b \in 1..Len(Starting) :
      ( /\ HasRegularPriority(Starting[a]) /\ HasRegularPriority(Starting[b])
        /\ Starting[a].priority > Starting[b].priority
        /\ Estimate(Starting[a].content) = Estimate(Starting[b].content)
        /\ KeptByStep(b) ) => KeptByStep(a)

\* C7: every compaction step is monotone in priority at equal size.
C7_PriorityMonotone == [][C7_Step]_vars

C7_Witness ==
  /\ Compacted /\ last.result.path = "overflow"
  /\ Len(items) = 1 /\ Len(archivedItems) = 1
  /\ HasRegularPriority(items[1]) /\ HasRegularPriority(archivedItems[1])
  /\ items[1].priority > archivedItems[1].priority
  /\ Estimate(items[1].content) = Estimate(archivedItems[1].content)
  /\ Estimate(items[1].content) > 0

\* C8 as claimed: of two fragments of identical priority and size, whenever a
\* compaction keeps exactly one of them it keeps the one inserted first (identifiers
\* are issued in insertion order).
C8_Claimed_Step ==
  CompactionStep =>
    \A x \in 1..Len(Starting), y \in 1..Len(Starting) :
      ( /\ Starting[x].id < Starting[y].id
        /\ Starting[x].priority = Starting[y].priority
        /\ Starting[x].content = Starting[y].content
        /\ KeptByStep(x) # KeptByStep(y) ) => KeptByStep(x)

\* C8 as claimed, of every step.
C8_Claimed == [][C8_Claimed_Step]_vars

RatioIsOne(ratio) == ratio[2] # 0 /\ ratio[1] = ratio[2]

\* C9: when the resident fragments total at most maxSize, compress() leaves both
\* collections as they are, reports ratio 1 and compressedSize = originalSize, and a
\* second call would do and report the same.
C9_Step ==
  (last'.op = "compress" /\ GetCurrentSize(items) <= maxSize) =>
    /\ items' = items
    /\ archivedItems' = archivedItems
    /\ RatioIsOne(last'.result.compressionRatio)
    /\ last'.result.originalSize = GetCurrentSize(items)
    /\ last'.result.compressedSize = last'.result.originalSize
    /\ LET again == CompressOf(items', archivedItems', maxSize',
                               preserveInstructionsAtStart', instructionsContent')
       IN /\ again.items = items'
          /\ again.archivedItems = archivedItems'
          /\ RatioIsOne(again.result.compressionRatio)

\* C9: every compress() step within capacity is a no-op reporting ratio 1.
C9_FastPathNoOp == [][C9_Step]_vars

C9_Witness ==
  /\ last.op = "compress" /\ last.result.path = "fast"
  /\ PinConfigured
  /\ Len(items) = 2
  /\ items[1].timestamp < items[2].timestamp
  /\ GetCurrentSize(items) = maxSize

\* C10 as claimed: every fragment held, resident or archived, has a priority in [0,1].
C10_Claimed ==
  /\ \A k \in 1..Len(items) : items[k].priority >= 0 /\ items[k].priority <= 100
  /\ \A k \in 1..Len(archivedItems) :
        archivedItems[k].priority >= 0 /\ archivedItems[k].priority <= 100

\* ---------------------------------------------------------------- C11..C17

\* C11: updatePriority(id, p) returns true exactly when id is resident, and then
\* that fragment holds p brought into [0, 1] (1.5 becomes 1.0, -0.5 becomes 0.0)
\* while every other fragment is as it was; for an archived or unknown id it
\* returns false and no fragment changes.
C11_Step ==
  \A itemId \in Ids, priority \in Priorities :
     (last'.op = "updatePriority" /\ UpdatePriority(itemId, priority)) =>
        IF itemId \in ResidentIds
        THEN /\ last'.ret = TRUE
             /\ Len(items') = Len(items)
             /\ \A k \in 1..Len(items) :
                  items'[k] = IF items[k].id = itemId
                              THEN [items[k] EXCEPT !.priority =
                                      IF priority < 0 THEN 0
                                      ELSE IF priority > 100 THEN 100 ELSE priority]
                              ELSE items[k]
             /\ archivedItems' = archivedItems
        ELSE /\ last'.ret = FALSE
             /\ items' = items
             /\ archivedItems' = archivedItems

C11_UpdatePriorityClamps == [][C11_Step]_vars

\* an updatePriority returned true and left its fragment at an end of [0, 1]
C11_Witness ==
  /\ last.op = "updatePriority"
  /\ last.ret = TRUE
  /\ \E k \in 1..Len(items) : items[k].id = last.id /\ items[k].priority \in {0, 100}

\* C12: restoreItem(id) with an id that is resident or unknown returns false,
\* runs no compaction and leaves both collections as they were.
C12_Step ==
  \A itemId \in Ids :
     (last'.op = "restoreItem" /\ itemId \notin ArchivedIds /\ RestoreItem(itemId)) =>
        /\ last'.ret = FALSE
        /\ last'.result = NoResult
        /\ items' = items
        /\ archivedItems' = archivedItems

C12_RestoreRefused == [][C12_Step]_vars

\* a restoreItem returned false while a fragment was resident and another archived
C12_Witness ==
  /\ last.op = "restoreItem"
  /\ last.ret = FALSE
  /\ items # <<>>
  /\ archivedItems # <<>>

\* C13 as claimed: when restoreItem(id) has returned true the fragment is resident,
\* is not in the archive, and its archived flag is false.
C13_Claimed ==
  (last.op = "restoreItem" /\ last.ret = TRUE) =>
     /\ last.id \in ResidentIds
     /\ last.id \notin ArchivedIds
     /\ \A k \in 1..Len(items) : items[k].id = last.id => ~items[k].archived

\* C13, amended: when restoreItem(id) returns true, id was archived, and on return
\* the fragment is in exactly one collection: resident with its archived flag
\* false, or, when the compaction restoreItem runs took the overflow path and did
\* not keep it, archived again with the flag true. It is resident whenever that
\* compaction took the fast path.
C13_Step ==
  (last'.op = "restoreItem" /\ last'.ret = TRUE) =>
     /\ last'.id \in ArchivedIds
     /\ (last'.id \in IdsOf(items')) # (last'.id \in IdsOf(archivedItems'))
     /\ \A k \in 1..Len(items') : items'[k].id = last'.id => ~items'[k].archived
     /\ \A k \in 1..Len(archivedItems') :
          archivedItems'[k].id = last'.id => archivedItems'[k].archived
     /\ last'.result.path = "fast" => last'.id \in IdsOf(items')

C13_RestoredUnlessArchivedAgain == [][C13_Step]_vars

\* a restoreItem returned true and its fragment is resident, flag cleared
C13_Witness ==
  /\ last.op = "restoreItem"
  /\ last.ret = TRUE
  /\ \E k \in 1..Len(items) : items[k].id = last.id /\ ~items[k].archived

\* C14: removeItem(id) returns true exactly when id is resident and then deletes
\* that fragment only; otherwise it returns false and changes nothing; it never
\* removes an archived fragment.
C14_Step ==
  \A itemId \in Ids :
     (last'.op = "removeItem" /\ RemoveItem(itemId)) =>
        IF itemId \in ResidentIds
        THEN LET other(i) == i.id # itemId
             IN /\ last'.ret = TRUE
                /\ items' = SelectSeq(items, other)
                /\ archivedItems' = archivedItems
        ELSE /\ last'.ret = FALSE
             /\ items' = items
             /\ archivedItems' = archivedItems

C14_RemoveResidentOnly == [][C14_Step]_vars

\* a removeItem returned true and left another fragment resident
C14_Witness ==
  /\ last.op = "removeItem"
  /\ last.ret = TRUE
  /\ items # <<>>

\* C15: archiveLowPriority() moves exactly the resident fragments whose priority
\* is strictly below the threshold to the end of the archive, returns how many it
\* moved, leaves the other resident fragments in their order and keeps the
\* fragments the archive already held.
C15_Step ==
  last'.op = "archiveLowPriority" =>
     LET low(i) == i.priority < archiveThreshold
         high(i) == i.priority >= archiveThreshold
         moved == SelectSeq(items, low)
     IN /\ items' = SelectSeq(items, high)
        /\ Len(archivedItems') = Len(archivedItems) + Len(moved)
        /\ SubSeq(archivedItems', 1, Len(archivedItems)) = archivedItems
        /\ \A k \in 1..Len(moved) :
             archivedItems'[Len(archivedItems) + k].id = moved[k].id
        /\ last'.ret = Len(moved)

C16_Claimed_Step ==
  last'.op \in {"getFormattedContext", "summarizeArchived"} =>
     items' = items /\ archivedItems' = archivedItems

C16_Claimed == [][C16_Claimed_Step]_vars

\* C17 as claimed: a compress() that starts with a resident total of zero reports
\* ratio 1 and archives nothing, whatever the capacity.
C17_Claimed_Step ==
  (last'.op = "compress" /\ GetCurrentSize(items) = 0) =>
     /\ RatioIsOne(last'.result.compressionRatio)
     /\ archivedItems' = archivedItems

C17_Claimed == [][C17_Claimed_Step]_vars

\* ---------------------------------------------------------------- C18..C20

\* C18: in the example conversation (capacity 500, pin mode on, instructions of
\* 100 units), while the six fragments of 20, 5, 40, 15, 10, 30 units are added
\* every addItem's compaction reports ratio 1, every fragment added so far is
\* resident and the archive is empty: six resident, none archived at the end.
C18_SixFit ==
  idCounter \in 1..6 =>
     /\ last.op = "addItem"
     /\ RatioIsOne(last.result.compressionRatio)
     /\ Len(items) = idCounter
     /\ archivedItems = <<>>

\* the six fragments have been added and are resident
C18_Witness ==
  /\ idCounter = 6
  /\ Len(items) = 6
  /\ GetCurrentSize(items) = 120

C20_Claimed ==
  LET level == IF used >= budgetConfig.maxTokens THEN "exceeded"
               ELSE IF used * 100 >= 90 * budgetConfig.maxTokens THEN "critical"
               ELSE IF used * 100 >= 70 * budgetConfig.maxTokens THEN "warning"
               ELSE "none"
  IN /\ used >= budgetConfig.maxTokens =>
          GetStatus(used, budgetConfig).alertLevel = "exceeded"
     /\ (called.op \in {"reserve", "consume"} /\ level # "none") =>
          /\ alerts # <<>>
          /\ alerts[Len(alerts)].level = level

\* ---------------------------------------------------------------- C21..C30

\* C21 as claimed: a reserve, consume or release that starts with used within
\* maxTokens ends with used within maxTokens.
C21_Claimed_Step ==
  (called'.op \in {"reserve", "consume", "release"} /\ used <= budgetConfig.maxTokens) =>
     used' <= budgetConfig'.maxTokens

C21_Claimed == [][C21_Claimed_Step]_vars

\* C22: canExecute(tokens, mode) returns allowed = true exactly when
\* used + tokens x multiplier(mode) <= maxTokens, and changes neither used nor the
\* alert list; when it names a fallback mode, allowed is false, auto-fallback is
\* on, the fallback's multiplier is below the requested mode's, and
\* used + tokens x multiplier(fallback) <= maxTokens.
C22_Step ==
  \A tokens \in Tokens, mode \in Modes :
     (/\ called'.op = "canExecute"
      /\ called'.ret.estimatedCost = tokens * Multiplier(mode)
      /\ CanExecute(tokens, mode)) =>
        LET answer == called'.ret
        IN /\ answer.allowed <=> (used + tokens * Multiplier(mode) <= budgetConfig.maxTokens)
           /\ used' = used
           /\ alerts' = alerts
           /\ answer.fallback # "none" =>
                /\ ~answer.allowed
                /\ enableAutoFallback
                /\ Multiplier(answer.fallback) < Multiplier(mode)
                /\ used + tokens * Multiplier(answer.fallback) <= budgetConfig.maxTokens

C22_CanExecuteProjects == [][C22_Step]_vars

\* a canExecute refused the requested mode and named a cheaper one
C22_Witness ==
  /\ called.op = "canExecute"
  /\ ~called.ret.allowed
  /\ called.ret.fallback # "none"

\* C28: reserve(tokens, mode) followed at once by release(id, tokens, mode) with
\* the same tokens and mode leaves used at the value it had before the reserve.
C28_Step ==
  \A tokens \in Tokens, mode \in Modes :
     (/\ called'.op = "reserve"
      /\ used' - used = EstimateCost(tokens, mode)
      /\ Reserve(tokens, mode)) =>
        /\ used >= 0
        /\ UsedAfterRelease(used', tokens, mode) = used

C28_ReserveReleaseRoundTrip == [][C28_Step]_vars

\* a reserve has been made and a release of any of the costs would not reach zero
C28_Witness ==
  /\ called.op = "reserve"
  /\ \A tokens \in Tokens, mode \in Modes :
       EstimateCost(tokens, mode) <= MaxUsed => used > EstimateCost(tokens, mode)

\* the order the presentation sort asks for: no regular fragment before a critical
\* one, and within each group no older fragment before a newer one
InDisplayOrder(s) ==
  \A i, j \in 1..Len(s) :
     i < j =>
        /\ ~(HasRegularPriority(s[i]) /\ HasCriticalPriority(s[j]))
        /\ (HasCriticalPriority(s[i]) <=> HasCriticalPriority(s[j])) =>
              s[i].timestamp >= s[j].timestamp

\* the resident fragments in the order the lines of a formatted context name them
Emitted(lines) == [k \in 1..Len(lines) |-> items[IndexOf(items, lines[k].id)]]

\* C24: after a compaction that took the overflow path the resident collection
\* has every fragment of priority > 0.9 before every other one and, within each of
\* the two groups, newer fragments before older ones; getFormattedContext emits
\* all resident fragments in an order of that kind in every state.
C24_DisplayOrder ==
  /\ (Compacted /\ last.result.path = "overflow") => InDisplayOrder(items)
  /\ last.op = "getFormattedContext" =>
       /\ Len(last.ret.lines) = Len(items)
       /\ {last.ret.lines[k].id : k \in 1..Len(last.ret.lines)} = ResidentIds
       /\ InDisplayOrder(Emitted(last.ret.lines))

\* an overflow-path compaction has put a newer fragment before an older one
C24_Witness ==
  /\ Compacted
  /\ last.result.path = "overflow"
  /\ Len(items) >= 2
  /\ items[1].timestamp > items[2].timestamp
  /\ items[1].id > items[2].id

\* C25: every fragment in the archive has archived = true and every resident
\* fragment has archived = false.
C25_FlagAgreesWithPlace ==
  /\ \A k \in 1..Len(items) : ~items[k].archived
  /\ \A k \in 1..Len(archivedItems) : archivedItems[k].archived

\* a restoreItem has brought a fragment back while another is in the archive
C25_Witness ==
  /\ last.op = "restoreItem"
  /\ last.ret = TRUE
  /\ last.id \in ResidentIds
  /\ archivedItems # <<>>

\* C26: updatePriority runs no compaction: both collections keep their members
\* and their order, the archive is untouched, and the only field that may change
\* is the priority of the resident fragment the call named.
C26_Step ==
  last'.op = "updatePriority" =>
     /\ last'.result = NoResult
     /\ archivedItems' = archivedItems
     /\ Len(items') = Len(items)
     /\ \A k \in 1..Len(items) :
          /\ [items'[k] EXCEPT !.priority = items[k].priority] = items[k]
          /\ items'[k].priority # items[k].priority =>
                (last'.ret = TRUE /\ last'.id = items[k].id)

C26_UpdatePriorityDoesNotCompact == [][C26_Step]_vars

\* an updatePriority succeeded in a state a compaction would have changed
C26_Witness ==
  /\ last.op = "updatePriority"
  /\ last.ret = TRUE
  /\ CompressOf(items, archivedItems, maxSize, preserveInstructionsAtStart,
                instructionsContent).archivedItems # archivedItems

AtCutoff(item) == item.priority = 90

\* C27: a fragment of priority exactly 0.9 is regular: after an overflow-path
\* compaction under pinned instructions the resident fragments at 0.9, if any, fit
\* in the space the fragments above 0.9 leave; no fragment at 0.9 stands before one
\* above 0.9 after an overflow-path compaction or in a formatted context; and the
\* formatted context marks as critical exactly the fragments above 0.9.
C27_CutoffExclusive ==
  /\ (Compacted /\ last.result.path = "overflow") =>
       /\ PinConfigured =>
            \/ SelectSeq(items, AtCutoff) = <<>>
            \/ SumSizes(SelectSeq(items, AtCutoff)) + CriticalSize(items) <= maxSize
       /\ \A i, j \in 1..Len(items) :
            i < j => ~(AtCutoff(items[i]) /\ items[j].priority > 90)
  /\ last.op = "getFormattedContext" =>
       LET lines == last.ret.lines
       IN /\ \A k \in 1..Len(lines) :
               lines[k].label = "star" <=> Emitted(lines)[k].priority > 90
          /\ \A i, j \in 1..Len(lines) :
               i < j => ~(AtCutoff(Emitted(lines)[i]) /\ Emitted(lines)[j].priority > 90)

\* under pinned instructions an addItem of a fragment at 0.9 archived it while a
\* fragment above 0.9 stayed resident
C27_Witness ==
  /\ PinConfigured
  /\ last.op = "addItem"
  /\ last.result.path = "overflow"
  /\ \E k \in 1..Len(archivedItems) :
       archivedItems[k].id = last.id /\ AtCutoff(archivedItems[k])
  /\ \E k \in 1..Len(items) : items[k].priority > 90

\* C29: identifiers are not reused: the counter never goes down, every identifier
\* held is at most the counter, and each addItem issues the counter's next value.
C29_Step ==
  /\ idCounter' >= idCounter
  /\ \A id \in ResidentIds \cup ArchivedIds : id <= idCounter
  /\ last'.op = "addItem" => (last'.id = idCounter' /\ last'.id > idCounter)

C29_IdentifiersNotReused == [][C29_Step]_vars

\* an addItem issued a second identifier after the first fragment was destroyed
C29_Witness ==
  /\ last.op = "addItem"
  /\ last.id = 2
  /\ ResidentIds \cup ArchivedIds = {2}

\* C30: a compress() called right after a compress() leaves both collections as
\* the first call left them.
C30_Step ==
  (last.op = "compress" /\ last'.op = "compress") =>
     (items' = items /\ archivedItems' = archivedItems)

C30_CompressIdempotent == [][C30_Step]_vars

\* a compress() took the overflow path and left more resident than the capacity,
\* so that the next compress() takes the overflow path too
C30_Witness ==
  /\ last.op = "compress"
  /\ last.result.path = "overflow"
  /\ items # <<>>
  /\ GetCurrentSize(items) > maxSize

\* C23 as claimed: after recordEnd(agent) for a tracked agent, a bottleneck
\* message names the agent exactly when its cumulative execution time exceeds
\* twice the average of the cumulative execution times of the tracked agents.
C23_Claimed_Step ==
  \A agentId \in AgentIds, tokensUsed \in TokensUsed :
     (/\ Len(events') = Len(events) + 1
      /\ events'[Len(events')] = Event("end", agentId, clock', tokensUsed)
      /\ RecordEnd(agentId, tokensUsed)) =>
        LET agent == agents'[IndexOfAgent(agents', agentId)]
            flagged == \E k \in 1..Len(bottlenecks') :
                          bottlenecks'[k].agentName = agent.agentName
        IN flagged <=> agent.executionTimeMs * Len(agents') > 2 * TotalTime(agents')

C23_Claimed == [][C23_Claimed_Step]_vars

\* ------------------------------------------------------------- C31..C32

\* how many entries of s are the fragment x
CountIn(s, x) == Cardinality({k \in 1..Len(s) : s[k] = x})

\* the archived fragments would all be resident again if the capacity decided
WouldFitAgain ==
  /\ archivedItems # <<>>
  /\ GetCurrentSize(items) + GetCurrentSize(archivedItems) <= maxSize

\* C31: a call other than restoreItem, clear and clearArchived (addItem,
\* updatePriority, removeItem, archiveLowPriority, setInstructions, compress,
\* setMaxSize and the two read-outs) leaves every archived fragment in the
\* archive, unaltered, and puts none of them back among the resident items,
\* also when the new capacity would hold them
C31_Step ==
  last'.op \notin {"restoreItem", "clear", "clearArchived"} =>
    \A k \in 1..Len(archivedItems) :
       /\ CountIn(archivedItems', archivedItems[k]) >= CountIn(archivedItems, archivedItems[k])
       /\ archivedItems[k].id \notin IdsOf(items) => archivedItems[k].id \notin IdsOf(items')
C31_ArchiveOnlyLosesByRestoreOrClear == [][C31_Step]_vars

\* setMaxSize has just raised the capacity to one that holds the resident and the
\* archived fragments together, and the archive is still there
C31_Witness == last.op = "setMaxSize" /\ WouldFitAgain

\* C32 (as claimed): release with a reservation id that reserve never returned
\* leaves used as it was
C32_Claimed_Step ==
  \A reservationId \in ForeignIds, tokens \in Tokens, mode \in Modes :
     (called'.op = "release" /\ Release(reservationId, tokens, mode)) => used' = used
C32_Claimed == [][C32_Claimed_Step]_vars

====
